---- MODULE Spec2Model ----
(***************************************************************************)
(* Model of package storage (pkg/storage/bucket.go): the Bucket entity and *)
(* its ReadFile, DeleteObject, UploadFile, Upload and                      *)
(* DownloadAllObjectsInBucket operations, together with the local          *)
(* filesystem and the object store they act on.                            *)
(*                                                                         *)
(* Paths and keys are strings.  The local filesystem is a set of           *)
(* directories and a map of files, both keyed by the resolved path (the    *)
(* sequence of path elements the operating system walks).  The store is a  *)
(* sequence of listing pages, from which a delete removes a key.  Every    *)
(* call made on the store client, the transfer manager or the filesystem   *)
(* is appended to a per-call log.                                          *)
(***************************************************************************)
EXTENDS Integers, Sequences, FiniteSets, TLC

VARIABLES
    bucket,      \* the Bucket the methods are called on: Client, Manager, Name
    Separator,   \* os.PathSeparator of the platform the program was built for
    store,       \* the bucket's listing: a sequence of pages of keys
    fsDirs,      \* local directories (resolved paths)
    fsFiles,     \* local regular files: resolved path -> content
    openHandles, \* local file handles opened by the running call, not yet closed
    pc,          \* position of the running call
    op,          \* the running (or last) call: its name, arguments and locals
    ret,         \* what the last finished call returned
    log,         \* calls issued by the running (or last) call, in order
    prev,        \* name, argument and result of the call before this one, and
                 \* the downloads that failed in the calls so far
    ncalls       \* number of calls started

vars ==
    <<bucket, Separator, store, fsDirs, fsFiles, openHandles, pc, op, ret, log, prev,
      ncalls>>

----------------------------------------------------------------------------
(* Bounds *)

\* Bucket operations invoked in one behaviour.
MaxCalls == 2

\* ListObjectsV2 requests one DownloadAllObjectsInBucket call may issue.
MaxListCalls == 3

----------------------------------------------------------------------------
(* package strings *)

Char(s, i) == SubSeq(s, i, i)

HasPrefix(s, prefix) ==
    Len(prefix) <= Len(s) /\ SubSeq(s, 1, Len(prefix)) = prefix

HasSuffix(s, suffix) ==
    Len(suffix) <= Len(s) /\ SubSeq(s, Len(s) - Len(suffix) + 1, Len(s)) = suffix

TrimPrefix(s, prefix) ==
    IF HasPrefix(s, prefix) THEN SubSeq(s, Len(prefix) + 1, Len(s)) ELSE s

Contains(s, c) == \E i \in 1..Len(s) : Char(s, i) = c

\* Index of the first character of s that is in the set cs, 0 if there is none.
IndexAny(s, cs) ==
    IF \E i \in 1..Len(s) : Char(s, i) \in cs
    THEN CHOOSE i \in 1..Len(s) :
            /\ Char(s, i) \in cs
            /\ \A j \in 1..(i - 1) : Char(s, j) \notin cs
    ELSE 0

RECURSIVE SplitAny(_, _)
SplitAny(s, cs) ==
    LET i == IndexAny(s, cs)
    IN  IF i = 0 THEN <<s>>
        ELSE <<SubSeq(s, 1, i - 1)>> \o SplitAny(SubSeq(s, i + 1, Len(s)), cs)

Split(s, sep) == SplitAny(s, {sep})

RECURSIVE ReplaceAll(_, _, _)
ReplaceAll(s, old, new) ==
    IF s = "" THEN ""
    ELSE (IF Char(s, 1) = old THEN new ELSE Char(s, 1))
            \o ReplaceAll(SubSeq(s, 2, Len(s)), old, new)

RECURSIVE JoinWith(_, _)
JoinWith(elems, sep) ==
    IF elems = <<>> THEN ""
    ELSE IF Len(elems) = 1 THEN elems[1]
    ELSE elems[1] \o sep \o JoinWith(Tail(elems), sep)

----------------------------------------------------------------------------
(* package path/filepath and the operating system's path resolution *)

\* os.IsPathSeparator: '/' everywhere, and the backslash on Windows.
PathSeps == {"/", Separator}

\* filepath.ToSlash
ToSlash(path) ==
    IF Separator = "/" THEN path ELSE ReplaceAll(path, Separator, "/")

\* The elements of a path that name something: empty elements and "." drop out.
\* (Paths with ".." elements are not modelled.)
Elements(path) ==
    SelectSeq(SplitAny(path, PathSeps), LAMBDA e : e # "" /\ e # ".")

IsRooted(path) == path # "" /\ Char(path, 1) \in PathSeps

\* filepath.Clean, for paths without ".." elements and without volume names.
Clean(path) ==
    LET elems == Elements(path)
    IN  IF elems = <<>>
        THEN IF IsRooted(path) THEN Separator ELSE "."
        ELSE (IF IsRooted(path) THEN Separator ELSE "") \o JoinWith(elems, Separator)

\* filepath.Join of two non-empty elements.
Join(dir, name) == Clean(dir \o Separator \o name)

\* The resolved path the operating system reaches for a path string.
Resolve(path) ==
    (IF IsRooted(path) THEN <<"/">> ELSE <<>>) \o Elements(path)

HasTrailingSep(path) == path # "" /\ Char(path, Len(path)) \in PathSeps

Parent(r) == SubSeq(r, 1, Len(r) - 1)

IsPrefixOf(r, p) == Len(r) <= Len(p) /\ SubSeq(p, 1, Len(r)) = r

----------------------------------------------------------------------------
(* package os, over a filesystem given as (dirs, files) *)

IsDirIn(dirs, r) == r = <<>> \/ r = <<"/">> \/ r \in dirs

\* Some element strictly above r is a regular file.
FileAbove(files, r) ==
    \E n \in 1..(Len(r) - 1) : SubSeq(r, 1, n) \in DOMAIN files

\* os.Stat: "ok", or the error it fails with.
Stat(dirs, files, path) ==
    LET r == Resolve(path)
    IN  IF FileAbove(files, r) THEN "ENOTDIR"
        ELSE IF r \in DOMAIN files
             THEN IF HasTrailingSep(path) THEN "ENOTDIR" ELSE "ok"
        ELSE IF IsDirIn(dirs, r) THEN "ok"
        ELSE "ENOENT"

\* os.IsNotExist
IsNotExist(err) == err = "ENOENT"

\* os.Mkdir: succeeds when the parent is a directory and nothing is at the path.
MkdirOK(dirs, files, path) ==
    LET r == Resolve(path)
    IN  /\ r # <<>>
        /\ IsDirIn(dirs, Parent(r))
        /\ ~IsDirIn(dirs, r)
        /\ r \notin DOMAIN files

Mkdir(dirs, files, path) ==
    IF MkdirOK(dirs, files, path) THEN dirs \cup {Resolve(path)} ELSE dirs

\* os.MkdirAll: fails, creating nothing, when a regular file is on the way.
MkdirAllOK(dirs, files, path) ==
    LET r == Resolve(path)
    IN  \A n \in 1..Len(r) : SubSeq(r, 1, n) \notin DOMAIN files

MkdirAll(dirs, files, path) ==
    LET r == Resolve(path)
    IN  IF MkdirAllOK(dirs, files, path)
        THEN dirs \cup {SubSeq(r, 1, n) : n \in 1..Len(r)}
        ELSE dirs

\* os.Create: O_CREATE|O_TRUNC in an existing directory.
CreateOK(dirs, files, path) ==
    LET r == Resolve(path)
    IN  /\ r # <<>>
        /\ ~HasTrailingSep(path)
        /\ ~FileAbove(files, r)
        /\ IsDirIn(dirs, Parent(r))
        /\ ~IsDirIn(dirs, r)

EmptyContent == ""

Create(files, path) ==
    LET r == Resolve(path)
    IN  [p \in DOMAIN files \cup {r} |-> IF p = r THEN EmptyContent ELSE files[p]]

\* What is under a resolved root: the root itself and everything below it.
Under(dirs, files, root) ==
    {p \in dirs \cup DOMAIN files : IsPrefixOf(root, p)}

FilesUnder(files, root) == {p \in DOMAIN files : IsPrefixOf(root, p)}

----------------------------------------------------------------------------
(* The bucket, the store behind it and the inputs *)

\* Bucket.Name
BucketName == "TestBucket"

\* The Bucket a caller builds: a store client, a transfer manager and the name.
TheBucket == [Client |-> "S3API", Manager |-> "S3Manager", Name |-> BucketName]

\* A fault: a request names something else than the Bucket's Name.
ContainerOfClient(bkt) == bkt.Client

\* aws.String(b.Name): the container a request names.
Container(bkt) == bkt.Name

\* The request carries no continuation token.
NoToken == 0

\* The bytes the store holds for a key.
Body(key) == "body of " \o key

\* The store's answer to a list request: without a token the first page, with the
\* token handed out with page i the page after it; every page but the last one
\* reports truncated.
ListPage(pages, token) ==
    LET i == IF token = NoToken THEN 1 ELSE token
    IN  [Contents |-> pages[i],
         IsTruncated |-> i < Len(pages),
         NextContinuationToken |-> IF i < Len(pages) THEN i + 1 ELSE NoToken,
         page |-> i]

\* The listings the store may hold: the download test's nested key, a key that is
\* also a prefix of another, two pages, an empty bucket, and the read test's two
\* keys.
Stores1 == << <<"/posts/Object1">> >>
Stores2 == << <<"a", "a/b">> >>
Stores3 == << <<"k1">>, <<"d/k2">> >>
Stores4 == << <<>> >>
Stores5 == << <<"Object1", "Object2">> >>
Stores == {Stores1, Stores2, Stores3, Stores4, Stores5}

\* Local trees the program may start with: nothing, the upload test's tree, and a
\* site with style sheets in a subdirectory.
EmptyTree == [dirs |-> {}, files |-> <<>>]

TestTree ==
    [dirs  |-> {<<"input">>, <<"input", "testUpload">>},
     files |-> (<<"input", "testUpload", "Object1.txt">> :> "one")
               @@ (<<"input", "testUpload", "Object2.md">> :> "two")]

SiteTree ==
    [dirs  |-> {<<"s">>, <<"s", "d">>},
     files |-> (<<"s", "a.css">> :> "css")
               @@ (<<"s", "d", "xcss">> :> "txt")]

Separators == {"/", "\\"}

\* The platform, local tree and store the program starts with.
Worlds ==
    ({"/"} \X {EmptyTree} \X Stores)
    \cup ({"/"} \X {SiteTree} \X {Stores3, Stores2})
    \cup (Separators \X {TestTree} \X {Stores4})
    \cup ({"\\"} \X {SiteTree} \X {Stores1})

\* Arguments of Upload.
UploadPaths == {"input/testUpload", "s/", "./s", "s\\d"}

\* Arguments of DownloadAllObjectsInBucket.
DestDirs == {"out/", "o/p", "s"}

OtherDirs == {<<>>, <<"a", "public">>}

NoResp == [Contents |-> <<>>, IsTruncated |-> FALSE,
           NextContinuationToken |-> NoToken, page |-> 0]

NoOp ==
    [name |-> "none", path |-> "", otherDirs |-> <<>>, destDir |-> "",
     query |-> [Bucket |-> "", ContinuationToken |-> NoToken],
     resp |-> NoResp, idx |-> 0, truncatedListing |-> FALSE, lists |-> 0,
     root |-> <<>>, tree |-> {}, pending |-> {}, visited |-> {},
     fileName |-> "", key |-> "", body |-> ""]

Init ==
    /\ bucket = TheBucket
    /\ \E w \in Worlds :
        /\ Separator = w[1]
        /\ fsDirs = w[2].dirs /\ fsFiles = w[2].files
        /\ store = w[3]
    /\ openHandles = {}
    /\ pc = "idle"
    /\ op = NoOp
    /\ ret = "none"
    /\ log = <<>>
    /\ prev = [name |-> "none", path |-> "", ret |-> "none", failed |-> {}]
    /\ ncalls = 0

\* The downloads of the call that has returned that failed: the destDir and the
\* key of each.
FailedDownloads ==
    {[destDir |-> op.destDir, Key |-> log[n].Key] :
        n \in {m \in 1..Len(log) : log[m].call = "Download" /\ ~log[m].ok}}

\* A call starts: the one before it becomes the previous call, and its failed
\* downloads are added to those of the calls before it.
Begin ==
    /\ pc = "idle"
    /\ ncalls < MaxCalls
    /\ ncalls' = ncalls + 1
    /\ prev' = [name |-> op.name, path |-> op.path, ret |-> ret,
                failed |-> prev.failed \cup FailedDownloads]

----------------------------------------------------------------------------
(* Bucket.Upload and uploadFile *)

\* A fault: the root is not stripped from the file's name.
UploadKeyWhole(inFile, path) == ToSlash(inFile)

\* uploadFile: the key sent for a file found by the walk.
UploadKey(inFile, path) ==
    LET file == TrimPrefix(ToSlash(inFile), ToSlash(path))
    IN  ToSlash(file)

\* A fault: the extension is matched without its dot.
ContentTypeNoDot(filePath) ==
    IF HasSuffix(filePath, "css") THEN "text/css" ELSE "text/html"

\* uploadFile: the content type sent with a key.
ContentType(filePath) ==
    IF HasSuffix(filePath, ".css") THEN "text/css" ELSE "text/html"

\* uploadFile: the calls it issues and the error it returns, given whether the
\* open and the upload succeed.
uploadFile(inFile, path, openOK, uploadOK) ==
    IF ~openOK
    THEN [events |-> << [call |-> "Open", file |-> inFile, ok |-> FALSE] >>,
          err |-> "ErrOpen"]
    ELSE [events |->
            << [call |-> "Open", file |-> inFile, ok |-> TRUE],
               [call |-> "Upload", Bucket |-> Container(bucket),
                Key |-> UploadKey(inFile, path),
                ContentType |-> ContentType(UploadKey(inFile, path)),
                Body |-> inFile, ok |-> uploadOK],
               [call |-> "Close", file |-> inFile] >>,
          err |-> IF uploadOK THEN "nil" ELSE "ErrUpload"]

\* A fault: nothing is taken to be a directory.
isDirectoryNever(dirs, path) == FALSE

\* isDirectory, for a path os.Stat succeeds on.
isDirectory(dirs, path) == IsDirIn(dirs, Resolve(path))

\* The name the walk hands to the callback for the entry e of the walked tree:
\* the cleaned root joined with each element below it.
RECURSIVE JoinAll(_, _, _)
JoinAll(base, names, n) ==
    IF n = 0 THEN base ELSE Join(JoinAll(base, names, n - 1), names[n])

OsPathname(path, root, e) ==
    JoinAll(Clean(path), SubSeq(e, Len(root) + 1, Len(e)), Len(e) - Len(root))

\* A fault: the walk goes on after a callback returned an error.
WalkGoesOn(err) == "walk"

\* godirwalk.Walk: where the walk stands after a callback returned err.
AfterCallback(err) == IF err = "nil" THEN "walk" ELSE "idle"

\* Upload is called; the walk cleans the path and inspects the root.
UploadStart(path) ==
    /\ Begin
    /\ LET root == Resolve(Clean(path))
           found == Stat(fsDirs, fsFiles, Clean(path)) = "ok"
       IN  /\ op' = [NoOp EXCEPT !.name = "Upload", !.path = path, !.root = root,
                        !.tree = IF found THEN Under(fsDirs, fsFiles, root) ELSE {},
                        !.pending = IF found THEN Under(fsDirs, fsFiles, root) ELSE {}]
           /\ pc' = IF found THEN "walk" ELSE "idle"
           /\ ret' = IF found THEN "none" ELSE "ErrWalk"
    /\ log' = <<>>
    /\ UNCHANGED <<bucket, Separator, store, fsDirs, fsFiles, openHandles>>

\* The entries the walk may hand to the callback next: unsorted, a directory
\* before what it contains.
Ready(e) ==
    /\ e \in op.pending
    /\ e = op.root \/ Parent(e) \in op.visited

Visit(e) == [op EXCEPT !.pending = @ \ {e}, !.visited = @ \cup {e}]

\* The callback on a directory: nothing is uploaded.
WalkDirectory ==
    /\ pc = "walk"
    /\ \E e \in op.pending :
        /\ Ready(e)
        /\ isDirectory(fsDirs, OsPathname(op.path, op.root, e))
        /\ op' = Visit(e)
    /\ UNCHANGED <<bucket, Separator, store, fsDirs, fsFiles, openHandles, pc,
                   ret, log, prev, ncalls>>

\* The callback on a file: uploadFile, whose error ends the walk.
WalkFile ==
    /\ pc = "walk"
    /\ \E e \in op.pending, openOK \in BOOLEAN, uploadOK \in BOOLEAN :
        LET inFile == OsPathname(op.path, op.root, e)
            r == uploadFile(inFile, op.path, openOK, uploadOK)
        IN  /\ Ready(e)
            /\ ~isDirectory(fsDirs, inFile)
            /\ openOK \/ uploadOK
            /\ op' = Visit(e)
            /\ log' = log \o r.events
            /\ pc' = AfterCallback(r.err)
            /\ ret' = IF r.err = "nil" THEN ret ELSE r.err
    /\ UNCHANGED <<bucket, Separator, store, fsDirs, fsFiles, openHandles, prev,
                   ncalls>>

\* isDirectory cannot stat the path: the process exits with status 2.
WalkStatFails ==
    /\ pc = "walk"
    /\ \E e \in op.pending : Ready(e)
    /\ pc' = "exited"
    /\ UNCHANGED <<bucket, Separator, store, fsDirs, fsFiles, openHandles, op,
                   ret, log, prev, ncalls>>

\* The walk has handed every entry to the callback: Upload returns nil.
UploadReturn ==
    /\ pc = "walk"
    /\ op.pending = {}
    /\ pc' = "idle"
    /\ ret' = "nil"
    /\ UNCHANGED <<bucket, Separator, store, fsDirs, fsFiles, openHandles, op,
                   log, prev, ncalls>>

----------------------------------------------------------------------------
(* Bucket.DownloadAllObjectsInBucket and dowloadObjectsInBucket *)

\* DownloadAllObjectsInBucket: destDir is made to end with "/".
WithSlash(destDir) ==
    IF Char(destDir, Len(destDir)) # "/" THEN destDir \o "/" ELSE destDir

\* DownloadAllObjectsInBucket: the directories after os.Mkdir of destDir and of
\* the first n of otherDirs under it; the errors of os.Mkdir are not looked at.
RECURSIVE MkdirEach(_, _, _, _, _)
MkdirEach(dirs, files, destDir, otherDirs, n) ==
    IF n = 0 THEN Mkdir(dirs, files, destDir)
    ELSE Mkdir(MkdirEach(dirs, files, destDir, otherDirs, n - 1), files,
               destDir \o otherDirs[n])

MkdirEvents(dirs, files, destDir, otherDirs) ==
    << [call |-> "Mkdir", path |-> destDir, ok |-> MkdirOK(dirs, files, destDir)] >>
    \o [n \in 1..Len(otherDirs) |->
            [call |-> "Mkdir", path |-> destDir \o otherDirs[n],
             ok |-> MkdirOK(MkdirEach(dirs, files, destDir, otherDirs, n - 1), files,
                            destDir \o otherDirs[n])]]

\* dowloadObjectsInBucket: "/" and each element of the key but the last.
RECURSIVE DirTree(_, _)
DirTree(parts, n) ==
    IF n = 0 THEN "" ELSE DirTree(parts, n - 1) \o "/" \o parts[n]

KeyDirTree(key) ==
    LET s3FileFullPathList == Split(key, "/")
    IN  DirTree(s3FileFullPathList, Len(s3FileFullPathList) - 1)

\* dowloadObjectsInBucket: the directories after the key's subdirectories are made.
AfterMkdirAll(dirs, files, destDir, key) ==
    IF Contains(key, "/")
    THEN MkdirAll(dirs, files, destDir \o KeyDirTree(key))
    ELSE dirs

\* dowloadObjectsInBucket: where the object is put.
DestFilePath(destDir, key) == destDir \o key

\* A fault: nothing is ever taken to be there already.
NeverThere(dirs, files, destFilePath) == FALSE

\* dowloadObjectsInBucket: the destination is left alone when os.Stat fails with
\* anything but "does not exist", or does not fail.
AlreadyThere(dirs, files, destFilePath) ==
    ~IsNotExist(Stat(dirs, files, destFilePath))

\* DownloadAllObjectsInBucket: the query of the next list request; the loop sends
\* the query it built before the loop, unchanged.
NextQuery(query, resp) == query

\* DownloadAllObjectsInBucket is called: destDir and otherDirs are made.
DownloadStart(destDir, otherDirs) ==
    /\ Begin
    /\ LET dd == WithSlash(destDir)
       IN  /\ fsDirs' = MkdirEach(fsDirs, fsFiles, dd, otherDirs, Len(otherDirs))
           /\ log' = MkdirEvents(fsDirs, fsFiles, dd, otherDirs)
           /\ op' = [NoOp EXCEPT !.name = "Download", !.path = destDir,
                        !.otherDirs = otherDirs, !.destDir = dd,
                        !.query = [Bucket |-> Container(bucket), ContinuationToken |-> NoToken],
                        !.truncatedListing = TRUE]
    /\ pc' = "list"
    /\ ret' = "none"
    /\ UNCHANGED <<bucket, Separator, store, fsFiles, openHandles>>

ListEvent(ok, page) ==
    [call |-> "ListObjectsV2", Bucket |-> op.query.Bucket,
     ContinuationToken |-> op.query.ContinuationToken, ok |-> ok, page |-> page]

\* The head of the loop: one page is listed.
DownloadList ==
    /\ pc = "list"
    /\ op.truncatedListing
    /\ op.lists < MaxListCalls
    /\ LET resp == ListPage(store, op.query.ContinuationToken)
       IN  /\ op' = [op EXCEPT !.resp = resp, !.idx = 1, !.lists = @ + 1]
           /\ log' = Append(log, ListEvent(TRUE, resp.page))
    /\ pc' = "page"
    /\ UNCHANGED <<bucket, Separator, store, fsDirs, fsFiles, openHandles, ret,
                   prev, ncalls>>

\* The list request fails: the call returns its error.
DownloadListFails ==
    /\ pc = "list"
    /\ op.truncatedListing
    /\ op.lists < MaxListCalls
    /\ op' = [op EXCEPT !.lists = @ + 1]
    /\ log' = Append(log, ListEvent(FALSE, 0))
    /\ pc' = "idle"
    /\ ret' = "ErrList"
    /\ UNCHANGED <<bucket, Separator, store, fsDirs, fsFiles, openHandles, prev,
                   ncalls>>

CurrentKey == op.resp.Contents[op.idx]

\* What a step of the page logs first: the entry it has reached and whether
\* anything is at the entry's destination then, and the directories it makes.
EntryEvents(key) ==
    << [call |-> "Entry", page |-> op.resp.page, idx |-> op.idx, Key |-> key,
        there |-> Resolve(DestFilePath(op.destDir, key))
                    \in fsDirs \cup DOMAIN fsFiles] >>
    \o (IF Contains(key, "/")
        THEN << [call |-> "MkdirAll", path |-> op.destDir \o KeyDirTree(key),
                 ok |-> MkdirAllOK(fsDirs, fsFiles, op.destDir \o KeyDirTree(key))] >>
        ELSE <<>>)

CloseEvents(handles) ==
    LET RECURSIVE closing(_)
        closing(hs) ==
            IF hs = {} THEN <<>>
            ELSE LET h == CHOOSE x \in hs : TRUE
                 IN  << [call |-> "Close", file |-> h] >> \o closing(hs \ {h})
    IN  closing(handles)

\* What os.Create logs: whether it succeeded, and whether a file was at the path
\* it opened with O_TRUNC.
CreateEvent(files, dest, ok) ==
    [call |-> "Create", path |-> dest, ok |-> ok,
     existed |-> Resolve(dest) \in DOMAIN files]

InPage ==
    /\ pc = "page"
    /\ op.idx <= Len(op.resp.Contents)

\* One entry of the page whose destination is taken to be there: it is skipped.
EntrySkip ==
    /\ InPage
    /\ LET key == CurrentKey
           dirs == AfterMkdirAll(fsDirs, fsFiles, op.destDir, key)
       IN  /\ AlreadyThere(dirs, fsFiles, DestFilePath(op.destDir, key))
           /\ fsDirs' = dirs
           /\ log' = log \o EntryEvents(key)
    /\ op' = [op EXCEPT !.idx = @ + 1]
    /\ UNCHANGED <<bucket, Separator, store, fsFiles, openHandles, pc, ret,
                   prev, ncalls>>

\* One entry whose destination file cannot be created: the call returns the error.
EntryCreateFails ==
    /\ InPage
    /\ LET key == CurrentKey
           dirs == AfterMkdirAll(fsDirs, fsFiles, op.destDir, key)
           dest == DestFilePath(op.destDir, key)
       IN  /\ ~AlreadyThere(dirs, fsFiles, dest)
           /\ ~CreateOK(dirs, fsFiles, dest)
           /\ fsDirs' = dirs
           /\ log' = log \o EntryEvents(key)
                        \o << CreateEvent(fsFiles, dest, FALSE) >>
                        \o CloseEvents(openHandles)
    /\ openHandles' = {}
    /\ pc' = "idle"
    /\ ret' = "ErrCreate"
    /\ UNCHANGED <<bucket, Separator, store, fsFiles, op, prev, ncalls>>

\* A fault: the loop over the page goes on after an error.
PageGoesOn(err) == "page"

\* dowloadObjectsInBucket: where the call stands after a step of the page
\* returned err; the error is returned through DownloadAllObjectsInBucket.
AfterEntry(err) == IF err = "nil" THEN "page" ELSE "idle"

\* One entry whose destination file is created and downloaded into; a failed
\* download returns its error and leaves the created file.
EntryDownload ==
    /\ InPage
    /\ \E downloadOK \in BOOLEAN :
        LET key == CurrentKey
            dirs == AfterMkdirAll(fsDirs, fsFiles, op.destDir, key)
            dest == DestFilePath(op.destDir, key)
            created == Create(fsFiles, dest)
        IN  /\ ~AlreadyThere(dirs, fsFiles, dest)
            /\ CreateOK(dirs, fsFiles, dest)
            /\ fsDirs' = dirs
            /\ fsFiles' = IF downloadOK
                          THEN [created EXCEPT ![Resolve(dest)] = Body(key)]
                          ELSE created
            /\ log' = log \o EntryEvents(key)
                        \o << CreateEvent(fsFiles, dest, TRUE),
                              [call |-> "Download", Bucket |-> Container(bucket), Key |-> key,
                               path |-> dest, ok |-> downloadOK] >>
                        \o (IF downloadOK THEN <<>>
                            ELSE CloseEvents(openHandles \cup {dest}))
            /\ openHandles' = IF downloadOK THEN openHandles \cup {dest} ELSE {}
            /\ op' = [op EXCEPT !.idx = IF downloadOK THEN @ + 1 ELSE @]
            /\ pc' = AfterEntry(IF downloadOK THEN "nil" ELSE "ErrDownload")
            /\ ret' = IF downloadOK THEN ret ELSE "ErrDownload"
    /\ UNCHANGED <<bucket, Separator, store, prev, ncalls>>

\* A fault: the loop stops after its first page.
TruncatedNever(resp) == FALSE

\* DownloadAllObjectsInBucket: truncatedListing after a page.
TruncatedListing(resp) == resp.IsTruncated

\* The page is done: its files are closed, and the loop goes on while the page
\* reported truncated.
DownloadPageEnd ==
    /\ pc = "page"
    /\ op.idx > Len(op.resp.Contents)
    /\ log' = log \o CloseEvents(openHandles)
    /\ openHandles' = {}
    /\ op' = [op EXCEPT !.truncatedListing = TruncatedListing(op.resp),
                        !.query = NextQuery(op.query, op.resp)]
    /\ pc' = IF TruncatedListing(op.resp) THEN "list" ELSE "idle"
    /\ ret' = IF TruncatedListing(op.resp) THEN ret ELSE "nil"
    /\ UNCHANGED <<bucket, Separator, store, fsDirs, fsFiles, prev, ncalls>>

----------------------------------------------------------------------------
(* Bucket.ReadFile, Bucket.DeleteObject and Bucket.UploadFile *)

\* A fault: an empty listing is not told apart from any other.
NoFilesNever(resp) == FALSE

\* ReadFile: the listing has no entry.
NoFiles(resp) == Len(resp.Contents) < 1

\* A fault: the loop runs on to the listing's last entry.
LoopKeyLast(resp) == resp.Contents[Len(resp.Contents)]

\* ReadFile: the entry the loop body runs on; its first run returns.
LoopKey(resp) == resp.Contents[1]

\* What ReadFile returns besides its error.
ReadResult(events, body, key, err) ==
    [events |-> events, body |-> body, key |-> key, err |-> err]

\* ReadFile: one list request without a token, then a GetObject and a read of the
\* body for the entry the loop runs on.
readFile(resp, listOK, getOK, readOK) ==
    LET list == [call |-> "ListObjectsV2", Bucket |-> Container(bucket),
                 ContinuationToken |-> NoToken, ok |-> listOK, page |-> resp.page]
    IN  IF ~listOK THEN ReadResult(<<list>>, "", "", "ErrList")
        ELSE IF NoFiles(resp)
             THEN ReadResult(<<list>>, "", "", "No files in bucket")
        ELSE IF Len(resp.Contents) = 0 THEN ReadResult(<<list>>, "", "", "nil")
        ELSE LET key == LoopKey(resp)
                 get == [call |-> "GetObject", Bucket |-> Container(bucket),
                         Key |-> key, ok |-> getOK]
                 read == [call |-> "ReadAll", Key |-> key, ok |-> readOK]
             IN  IF ~getOK THEN ReadResult(<<list, get>>, "", "", "ErrGetObject")
                 ELSE IF ~readOK
                      THEN ReadResult(<<list, get, read>>, "", "", "ErrRead")
                 ELSE ReadResult(<<list, get, read>>, Body(key), key, "nil")

\* ReadFile is called and returns.
ReadFile ==
    /\ Begin
    /\ \E listOK \in BOOLEAN, getOK \in BOOLEAN, readOK \in BOOLEAN :
        LET r == readFile(ListPage(store, NoToken), listOK, getOK, readOK)
        IN  /\ op' = [NoOp EXCEPT !.name = "ReadFile", !.body = r.body,
                         !.key = r.key]
            /\ log' = r.events
            /\ ret' = r.err
    /\ pc' = "idle"
    /\ UNCHANGED <<bucket, Separator, store, fsDirs, fsFiles, openHandles>>

\* A fault: the wait is issued whatever the delete answered.
WaitsAfterAlways(err) == TRUE

\* DeleteObject: the wait is issued when the delete returned no error.
WaitsAfter(err) == err = "nil"

\* DeleteObject: a delete request, then a wait until the object is absent.
deleteObject(key, deleteOK, waitOK) ==
    LET delete == [call |-> "DeleteObject", Bucket |-> Container(bucket), Key |-> key,
                   ok |-> deleteOK]
        wait == [call |-> "WaitUntilObjectNotExists", Bucket |-> Container(bucket),
                 Key |-> key, ok |-> waitOK]
        err == IF deleteOK THEN "nil" ELSE "ErrDelete"
    IN  IF ~WaitsAfter(err) THEN [events |-> <<delete>>, err |-> err]
        ELSE IF err # "nil" THEN [events |-> <<delete, wait>>, err |-> err]
        ELSE [events |-> <<delete, wait>>,
              err |-> IF waitOK THEN "nil" ELSE "ErrWait"]

\* The store once a key is deleted from it.
Without(pages, key) ==
    [i \in 1..Len(pages) |-> SelectSeq(pages[i], LAMBDA k : k # key)]

\* The keys DeleteObject is called with: each is in one of the listings.
DeleteKeys == {"Object1", "a"}

\* DeleteObject is called and returns.
DeleteObject(key) ==
    /\ Begin
    /\ \E deleteOK \in BOOLEAN, waitOK \in BOOLEAN :
        LET r == deleteObject(key, deleteOK, waitOK)
        IN  /\ log' = r.events
            /\ ret' = r.err
            /\ store' = IF deleteOK THEN Without(store, key) ELSE store
    /\ op' = [NoOp EXCEPT !.name = "DeleteObject", !.key = key]
    /\ pc' = "idle"
    /\ UNCHANGED <<bucket, Separator, fsDirs, fsFiles, openHandles>>

\* A fault: the suffix is left off the key.
ObjectPathBare(fileName) == "/content/post/" \o fileName

\* UploadFile: the key the string is written to.
ObjectPath(fileName) == "/content/post/" \o fileName \o ".md"

\* UploadFile's request sets no content type.
NoContentType == ""

\* UploadFile: one upload request through the transfer manager.
uploadString(fileName, body, uploadOK) ==
    [events |-> << [call |-> "Upload", Bucket |-> Container(bucket),
                    Key |-> ObjectPath(fileName), ContentType |-> NoContentType,
                    Body |-> body, ok |-> uploadOK] >>,
     err |-> IF uploadOK THEN "nil" ELSE "ErrUpload"]

\* The names and the body UploadFile is called with.
FileNames == {"TestFile", "a/b"}
Bodies == {"Some conent"}

\* UploadFile is called and returns.
UploadFile(fileName, body) ==
    /\ Begin
    /\ \E uploadOK \in BOOLEAN :
        LET r == uploadString(fileName, body, uploadOK)
        IN  /\ log' = r.events
            /\ ret' = r.err
    /\ op' = [NoOp EXCEPT !.name = "UploadFile", !.fileName = fileName,
                 !.body = body]
    /\ pc' = "idle"
    /\ UNCHANGED <<bucket, Separator, store, fsDirs, fsFiles, openHandles>>

----------------------------------------------------------------------------

Next ==
    \/ ReadFile
    \/ \E key \in DeleteKeys : DeleteObject(key)
    \/ \E fileName \in FileNames, body \in Bodies : UploadFile(fileName, body)
    \/ \E path \in UploadPaths : UploadStart(path)
    \/ WalkDirectory
    \/ WalkFile
    \/ WalkStatFails
    \/ UploadReturn
    \/ \E destDir \in DestDirs, otherDirs \in OtherDirs : DownloadStart(destDir, otherDirs)
    \/ DownloadList
    \/ DownloadListFails
    \/ EntrySkip
    \/ EntryCreateFails
    \/ EntryDownload
    \/ DownloadPageEnd

Spec == Init /\ [][Next]_vars

----------------------------------------------------------------------------
(* dowloadObjectsInBucket beside another writer of its destination: os.Stat *)
(* and os.Create are two calls, and the other writer may act between them. *)

\* os.Stat of one entry's destination says it is not there: the step goes on to
\* create it.
EntryStat ==
    /\ InPage
    /\ LET key == CurrentKey
           dirs == AfterMkdirAll(fsDirs, fsFiles, op.destDir, key)
       IN  /\ ~AlreadyThere(dirs, fsFiles, DestFilePath(op.destDir, key))
           /\ fsDirs' = dirs
           /\ log' = log \o EntryEvents(key)
    /\ pc' = "create"
    /\ UNCHANGED <<bucket, Separator, store, fsFiles, openHandles, op, ret, prev,
                   ncalls>>

\* The step of another DownloadAllObjectsInBucket call on the same destDir, for
\* the entry this call has reached: it finds no file, creates it and downloads
\* into it.
OtherDownloadStep ==
    /\ op.name = "Download"
    /\ pc \in {"page", "create"}
    /\ op.idx <= Len(op.resp.Contents)
    /\ LET key == CurrentKey
           dest == DestFilePath(op.destDir, key)
       IN  /\ ~AlreadyThere(fsDirs, fsFiles, dest)
           /\ CreateOK(fsDirs, fsFiles, dest)
           /\ fsFiles' = [Create(fsFiles, dest) EXCEPT ![Resolve(dest)] = Body(key)]
    /\ UNCHANGED <<bucket, Separator, store, fsDirs, openHandles, pc, op, ret, log,
                   prev, ncalls>>

\* os.Create after os.Stat cannot create the destination file: the call returns
\* the error.
CreateFailsAfterStat ==
    /\ pc = "create"
    /\ LET dest == DestFilePath(op.destDir, CurrentKey)
       IN  /\ ~CreateOK(fsDirs, fsFiles, dest)
           /\ log' = log \o << CreateEvent(fsFiles, dest, FALSE) >>
                        \o CloseEvents(openHandles)
    /\ openHandles' = {}
    /\ pc' = "idle"
    /\ ret' = "ErrCreate"
    /\ UNCHANGED <<bucket, Separator, store, fsDirs, fsFiles, op, prev, ncalls>>

\* os.Create after os.Stat opens the destination file, emptying whatever is in
\* it by then, and the object is downloaded into it.
CreateAfterStat ==
    /\ pc = "create"
    /\ \E downloadOK \in BOOLEAN :
        LET key == CurrentKey
            dest == DestFilePath(op.destDir, key)
            created == Create(fsFiles, dest)
        IN  /\ CreateOK(fsDirs, fsFiles, dest)
            /\ fsFiles' = IF downloadOK
                          THEN [created EXCEPT ![Resolve(dest)] = Body(key)]
                          ELSE created
            /\ log' = log \o << CreateEvent(fsFiles, dest, TRUE),
                                 [call |-> "Download", Bucket |-> Container(bucket),
                                  Key |-> key, path |-> dest, ok |-> downloadOK] >>
                        \o (IF downloadOK THEN <<>>
                            ELSE CloseEvents(openHandles \cup {dest}))
            /\ openHandles' = IF downloadOK THEN openHandles \cup {dest} ELSE {}
            /\ op' = [op EXCEPT !.idx = IF downloadOK THEN @ + 1 ELSE @]
            /\ pc' = AfterEntry(IF downloadOK THEN "nil" ELSE "ErrDownload")
            /\ ret' = IF downloadOK THEN ret ELSE "ErrDownload"
    /\ UNCHANGED <<bucket, Separator, store, fsDirs, prev, ncalls>>

NextRace ==
    \/ \E destDir \in DestDirs, otherDirs \in OtherDirs : DownloadStart(destDir, otherDirs)
    \/ DownloadList
    \/ DownloadListFails
    \/ EntrySkip
    \/ EntryStat
    \/ OtherDownloadStep
    \/ CreateFailsAfterStat
    \/ CreateAfterStat
    \/ DownloadPageEnd

SpecRace == Init /\ [][NextRace]_vars

----------------------------------------------------------------------------
(* Properties *)

\* The positions of the log that hold a call of the given kind.
Calls(kind) == {n \in 1..Len(log) : log[n].call = kind}

Returned(name, result) == op.name = name /\ pc = "idle" /\ ret = result

\* How often the entry j of the store's page i was stepped by the running call.
Stepped(i, j) ==
    Cardinality({n \in Calls("Entry") : log[n].page = i /\ log[n].idx = j})

\* C1: pagination completeness.  Against a store that serves the first page to a
\* request without a token and page i+1 to a request with page i's token, no
\* entry of any page is stepped twice by one DownloadAllObjectsInBucket call, and
\* when the call returns nil every entry of every page has been stepped once.
C1_PaginationCompleteness ==
    op.name = "Download" =>
        /\ \A i \in 1..Len(store) : \A j \in 1..Len(store[i]) : Stepped(i, j) <= 1
        /\ Returned("Download", "nil") =>
                \A i \in 1..Len(store) : \A j \in 1..Len(store[i]) : Stepped(i, j) = 1

\* The running call is a download into the directory that the call before it, a
\* download too, returned nil for.
SecondDownload ==
    /\ op.name = "Download"
    /\ prev.name = "Download"
    /\ prev.ret = "nil"
    /\ Resolve(prev.path) = Resolve(op.path)

\* C2: download idempotence.  A DownloadAllObjectsInBucket call that follows a
\* call on the same destDir that returned nil, with nothing changed in between,
\* issues no Download and creates (or truncates) no local file.
C2_DownloadIdempotence ==
    SecondDownload => Calls("Create") = {} /\ Calls("Download") = {}

\* C2's case: the second call stepped an entry and returned nil.
C2_Witness ==
    SecondDownload /\ Returned("Download", "nil") /\ Calls("Entry") # {}

\* C3: nested-key download.  When DownloadAllObjectsInBucket returns nil, every
\* listed key with a "/" in it has all its intermediate directories under
\* destDir, and its file at destDir joined with the key, inside destDir.
C3_NestedKeyDownload ==
    Returned("Download", "nil") =>
        \A n \in Calls("Entry") :
            LET key  == log[n].Key
                dest == Resolve(DestFilePath(op.destDir, key))
            IN  Contains(key, "/") =>
                    /\ dest \in DOMAIN fsFiles
                    /\ \A m \in 1..(Len(dest) - 1) : SubSeq(dest, 1, m) \in fsDirs
                    /\ IsPrefixOf(Resolve(op.destDir), dest)
                    /\ dest # Resolve(op.destDir)

\* C4: when DownloadAllObjectsInBucket(destDir, otherDirs...) returns nil, destDir
\* is a directory and every one of otherDirs is a directory directly under it.
C4_OtherDirsExist ==
    Returned("Download", "nil") =>
        /\ Resolve(op.destDir) \in fsDirs
        /\ \A n \in 1..Len(op.otherDirs) :
                Resolve(op.destDir \o op.otherDirs[n]) \in fsDirs

\* The path of a file relative to a root, written with "/".
RelativeKey(file, root) ==
    JoinWith(SubSeq(Resolve(file), Len(Resolve(root)) + 1, Len(Resolve(file))), "/")

\* C5: upload key translation.  For every root path passed to Upload and every
\* file uploaded from under it, the key is the file's path with the root's prefix
\* stripped and the separators turned into "/" (with or without the "/" that
\* followed the root).
C5_UploadKeyTranslation ==
    op.name = "Upload" =>
        \A n \in Calls("Upload") :
            LET rel == RelativeKey(log[n].Body, op.path)
            IN  log[n].Key \in {rel, "/" \o rel}


\* The keys the running call has sent to the transfer manager's Upload.
UploadedKeys == {log[n].Key : n \in Calls("Upload")}

\* Upload("input/testUpload") has returned nil on the tree
\* input/testUpload/{Object1.txt, Object2.md}.
TestTreeUploaded ==
    /\ Returned("Upload", "nil")
    /\ op.path = "input/testUpload"
    /\ FilesUnder(fsFiles, op.root) = DOMAIN TestTree.files

UploadsOf(f) == {n \in Calls("Upload") : Resolve(log[n].Body) = f}

\* C7: an Upload call that returns nil has issued one upload for every file under
\* its root and none for anything else, whatever the calls before it did.
C7_OneUploadPerFile ==
    Returned("Upload", "nil") =>
        /\ \A f \in FilesUnder(fsFiles, op.root) : Cardinality(UploadsOf(f)) = 1
        /\ \A n \in Calls("Upload") :
                Resolve(log[n].Body) \in FilesUnder(fsFiles, op.root)

\* C7's case: the same tree, with a subdirectory, uploaded a second time.
C7_Witness ==
    /\ Returned("Upload", "nil")
    /\ prev.name = "Upload" /\ prev.ret = "nil" /\ prev.path = op.path
    /\ Cardinality(Calls("Upload")) = 2
    /\ \E d \in op.visited : d # op.root /\ d \in fsDirs

\* C8: every upload of Upload carries text/css when its key ends in ".css" and
\* text/html otherwise.
C8_ContentTypePolicy ==
    op.name = "Upload" =>
        \A n \in Calls("Upload") :
            log[n].ContentType =
                IF HasSuffix(log[n].Key, ".css") THEN "text/css" ELSE "text/html"

\* C8's case: a style sheet and a file whose name only ends in "css" were sent.
C8_Witness ==
    /\ op.name = "Upload"
    /\ \E n \in Calls("Upload") : log[n].ContentType = "text/css"
    /\ \E n \in Calls("Upload") :
            log[n].ContentType = "text/html" /\ HasSuffix(log[n].Key, "css")

\* The call at position n of the log failed to open or to upload a file.
FailedStep(n) == log[n].call \in {"Open", "Upload"} /\ ~log[n].ok

\* C9: upload failure policy.  The first open or upload that fails ends the walk:
\* Upload returns that error, no upload is issued after the failing step, and
\* nothing is issued to take back the uploads made before it.
C9_UploadFailurePolicy ==
    op.name = "Upload" =>
        /\ \A n \in 1..Len(log) :
                FailedStep(n) =>
                    /\ pc = "idle"
                    /\ ret = (IF log[n].call = "Open" THEN "ErrOpen" ELSE "ErrUpload")
                    /\ \A m \in Calls("Upload") : m <= n
                    /\ \A m \in 1..(n - 1) : ~FailedStep(m)
        /\ Calls("DeleteObject") = {}

\* C9's case: an upload succeeded, the next one failed, and the walk had more to do.
C9_Witness ==
    /\ Returned("Upload", "ErrUpload")
    /\ \E n \in Calls("Upload") : log[n].ok
    /\ \E n \in Calls("Upload") : ~log[n].ok
    /\ op.pending # {}

\* C10: path translator round trip.  The key Upload(root) sends for a file, put
\* under the destination DownloadAllObjectsInBucket(root) makes of root, names the
\* file it came from; and no key holds the platform's own separator.
C10_RoundTrip ==
    op.name = "Upload" =>
        \A n \in Calls("Upload") :
            /\ Resolve(DestFilePath(WithSlash(op.path), log[n].Key))
                    = Resolve(log[n].Body)
            /\ Separator # "/" => ~Contains(log[n].Key, Separator)

\* The entries of the page a successful list request of the running call got.
Listed(n) == store[log[n].page]

\* ReadFile has returned, and its list request was answered.
ReadFileListed == op.name = "ReadFile" /\ pc = "idle" /\ log # <<>> /\ log[1].ok

\* C11: empty-bucket read.  When the listing ReadFile got has no entry, ReadFile
\* returns the error "No files in bucket", which is none of the store's errors,
\* an empty body and an empty key, and no GetObject call was issued.
C11_EmptyBucketRead ==
    (ReadFileListed /\ Listed(1) = <<>>) =>
        /\ ret = "No files in bucket"
        /\ ret \notin {"ErrList", "ErrGetObject", "ErrRead", "nil"}
        /\ op.body = "" /\ op.key = ""
        /\ Calls("GetObject") = {}

\* C11's case: ReadFile has returned from a bucket whose listing was empty.
C11_Witness ==
    /\ ReadFileListed
    /\ Listed(1) = <<>>
    /\ Calls("ListObjectsV2") = {1}

\* C12: first-object read.  When the listing ReadFile got has one or more
\* entries, ReadFile issued one list request, without a token, whether or not
\* the listing was truncated, and one GetObject, for the first listed key; no
\* other entry was fetched, and when ReadFile returns nil it returns the bytes
\* the store holds for the first key, and that key.
C12_FirstObjectRead ==
    (ReadFileListed /\ Listed(1) # <<>>) =>
        /\ Calls("ListObjectsV2") = {1}
        /\ log[1].ContinuationToken = NoToken
        /\ Cardinality(Calls("GetObject")) = 1
        /\ \A n \in Calls("GetObject") : log[n].Key = Listed(1)[1]
        /\ ret = "nil" => op.body = Body(Listed(1)[1]) /\ op.key = Listed(1)[1]
        /\ ret # "nil" =>
                /\ ret \in {"ErrGetObject", "ErrRead"}
                /\ op.body = "" /\ op.key = ""

\* C12's case: ReadFile has returned the first object of a listing that holds a
\* second one.
C12_Witness ==
    /\ ReadFileListed
    /\ Len(Listed(1)) > 1
    /\ Listed(1)[2] # Listed(1)[1]
    /\ ret = "nil"
    /\ op.key = Listed(1)[1]

\* C13: delete and confirm.  DeleteObject(k) issues one delete request for k and
\* then, only when the delete succeeded, one wait until k is absent; it returns
\* nil only when both succeeded, and otherwise the error of the step that failed.
C13_DeleteAndConfirm ==
    op.name = "DeleteObject" =>
        /\ pc = "idle"
        /\ Calls("DeleteObject") = {1}
        /\ log[1].Key = op.key
        /\ Calls("WaitUntilObjectNotExists") = (IF log[1].ok THEN {2} ELSE {})
        /\ Len(log) = (IF log[1].ok THEN 2 ELSE 1)
        /\ \A n \in Calls("WaitUntilObjectNotExists") : log[n].Key = op.key
        /\ ret = "nil" <=> (Len(log) = 2 /\ log[1].ok /\ log[2].ok)
        /\ ~log[1].ok => ret = "ErrDelete"
        /\ (log[1].ok /\ ~log[2].ok) => ret = "ErrWait"

\* C13's case: DeleteObject has returned nil after a delete and a wait.
C13_Witness ==
    /\ Returned("DeleteObject", "nil")
    /\ Calls("DeleteObject") = {1}
    /\ Calls("WaitUntilObjectNotExists") = {2}
    /\ \A p \in 1..Len(store) : \A i \in 1..Len(store[p]) : store[p][i] # op.key

\* A list request or a download of the running call that failed.
FailedRequest(n) == log[n].call \in {"ListObjectsV2", "Download"} /\ ~log[n].ok

\* C14: download failure policy.  The first list request or download that fails
\* makes DownloadAllObjectsInBucket return that error: the call has returned, no
\* list request, entry, directory, file or download comes after the failing
\* request, and every directory and file the call created is still there.
C14_DownloadFailurePolicy ==
    op.name = "Download" =>
        /\ \A n \in 1..Len(log) :
                FailedRequest(n) =>
                    /\ pc = "idle"
                    /\ ret = (IF log[n].call = "Download" THEN "ErrDownload"
                              ELSE "ErrList")
                    /\ \A m \in (n + 1)..Len(log) : log[m].call = "Close"
        /\ \A n \in Calls("Mkdir") \cup Calls("MkdirAll") :
                log[n].ok => Resolve(log[n].path) \in fsDirs
        /\ \A n \in Calls("Create") :
                log[n].ok => Resolve(log[n].path) \in DOMAIN fsFiles
        /\ \A n \in Calls("Download") :
                log[n].ok => fsFiles[Resolve(log[n].path)] = Body(log[n].Key)

\* C14's case: a download failed after another one of the same call had
\* succeeded and after directories had been made.
C14_Witness ==
    /\ Returned("Download", "ErrDownload")
    /\ \E n \in Calls("Download") : log[n].ok
    /\ \E n \in Calls("Download") : ~log[n].ok
    /\ \E n \in Calls("Mkdir") : log[n].ok

\* The calls of the log that are requests to the store client or the transfer
\* manager.
Requests ==
    {n \in 1..Len(log) :
        log[n].call \in {"ListObjectsV2", "GetObject", "DeleteObject",
                         "WaitUntilObjectNotExists", "Upload", "Download"}}

\* C15: bucket identity.  Whatever calls were made on the Bucket, every request
\* sent to the store client or the transfer manager names the Bucket's Name, and
\* the Bucket's Name, Client and Manager are the ones it was built with.
C15_BucketIdentity ==
    /\ \A n \in Requests : log[n].Bucket = bucket.Name
    /\ bucket = TheBucket

\* C15's case: a second call of another kind has sent a request on the Bucket.
C15_Witness ==
    /\ ncalls = 2
    /\ prev.name \in {"ReadFile", "DeleteObject", "UploadFile", "Upload", "Download"}
    /\ op.name \in {"ReadFile", "DeleteObject", "UploadFile", "Upload", "Download"}
    /\ prev.name # op.name
    /\ pc = "idle"
    /\ Requests # {}

\* C16: string upload.  UploadFile(fileName, body) issues one upload, to the
\* Bucket's Name, with the key "/content/post/" + fileName + ".md" and the body
\* it was given, and returns the upload's error when the upload fails.
C16_UploadFileKey ==
    op.name = "UploadFile" =>
        /\ pc = "idle"
        /\ Len(log) = 1
        /\ log[1].call = "Upload"
        /\ log[1].Bucket = bucket.Name
        /\ log[1].Key = "/content/post/" \o op.fileName \o ".md"
        /\ log[1].Body = op.body
        /\ ret = (IF log[1].ok THEN "nil" ELSE "ErrUpload")

\* C16's case: UploadFile("TestFile", body) has returned the error of its upload.
C16_Witness ==
    /\ Returned("UploadFile", "ErrUpload")
    /\ op.fileName = "TestFile"
    /\ Calls("Upload") = {1}
    /\ log[1].Key = "/content/post/TestFile.md"

\* C17: file-handle scoping.  At any time of an Upload or of a
\* DownloadAllObjectsInBucket, at most one of the files the operation opened is
\* open: the handle of one file's step is closed before the next step begins.
C17_FileHandleScoping ==
    op.name \in {"Upload", "Download"} => Cardinality(openHandles) <= 1

\* A directory or a destination file of the running call that could not be
\* created, and that is not there.
LocalFailure(n) ==
    /\ log[n].call \in {"Mkdir", "MkdirAll", "Create"}
    /\ ~log[n].ok
    /\ log[n].call # "Create" => Resolve(log[n].path) \notin fsDirs

\* C18: local I/O error propagation.  When DownloadAllObjectsInBucket fails to
\* create destDir, an extra directory, a directory of a key or a destination
\* file, the call stops there and returns an error: nothing but the closing of
\* files comes after the failure, and the call does not return nil.
C18_LocalErrorPropagation ==
    op.name = "Download" =>
        \A n \in 1..Len(log) :
            LocalFailure(n) =>
                /\ pc = "idle"
                /\ ret \notin {"nil", "none"}
                /\ \A m \in (n + 1)..Len(log) : log[m].call = "Close"

\* The calls the step of the entry logged at n made: those up to the next entry.
StepOf(n) ==
    {m \in (n + 1)..Len(log) : \A e \in Calls("Entry") : e <= n \/ e > m}

\* C19: skip-if-exists.  For every entry a DownloadAllObjectsInBucket call has
\* stepped, the creation of the destination file was called for if and only if
\* nothing was at the entry's destination when the entry was reached, and a
\* Download was issued if and only if that creation succeeded; an entry whose
\* destination was there got no Create and no Download.
C19_SkipIfExists ==
    op.name = "Download" =>
        \A n \in Calls("Entry") :
            /\ (\E m \in StepOf(n) : log[m].call = "Create") <=> ~log[n].there
            /\ (\E m \in StepOf(n) : log[m].call = "Download")
                    <=> (\E m \in StepOf(n) : log[m].call = "Create" /\ log[m].ok)
            /\ log[n].there =>
                    \A m \in StepOf(n) : log[m].call \notin {"Create", "Download"}

\* The last entry or list request logged before position n; 0 when there is none.
Before(n) ==
    LET marks == {m \in 1..(n - 1) : log[m].call \in {"Entry", "ListObjectsV2"}}
    IN  IF marks = {} THEN 0 ELSE CHOOSE m \in marks : \A k \in marks : k <= m

\* The last entry or list request of the log is the end of the page listed at p.
PageDoneAt(p, last) ==
    IF Listed(p) = <<>> THEN last = p
    ELSE /\ log[last].call = "Entry"
         /\ log[last].page = log[p].page
         /\ log[last].idx = Len(Listed(p))

\* C20: ordering.  In a DownloadAllObjectsInBucket call destDir and the extra
\* directories are made before the first list request; the entries of a page
\* are stepped one after the other in the order of the listing, each entry's
\* Create and Download coming before the next entry; every entry of a page is
\* stepped before the next list request; and a list request follows a page if
\* and only if that page reported truncated.
C20_Ordering ==
    op.name = "Download" =>
        /\ Calls("Mkdir") = 1..(1 + Len(op.otherDirs))
        /\ \A n \in Calls("ListObjectsV2") :
                Before(n) # 0 =>
                    LET p == CHOOSE m \in Calls("ListObjectsV2") :
                                 /\ m < n
                                 /\ \A k \in Calls("ListObjectsV2") :
                                        k < n => k <= m
                    IN  /\ log[p].ok
                        /\ PageDoneAt(p, Before(n))
                        /\ log[p].page < Len(store)
        /\ \A n \in Calls("Entry") :
                /\ Before(n) # 0
                /\ log[n].Key = store[log[n].page][log[n].idx]
                /\ IF log[n].idx = 1
                   THEN /\ log[Before(n)].call = "ListObjectsV2"
                        /\ log[Before(n)].ok
                        /\ log[Before(n)].page = log[n].page
                   ELSE /\ log[Before(n)].call = "Entry"
                        /\ log[Before(n)].page = log[n].page
                        /\ log[Before(n)].idx = log[n].idx - 1
                /\ \A m \in StepOf(n) :
                        log[m].call \in {"Create", "Download"} =>
                            log[m].path = DestFilePath(op.destDir, log[n].Key)
        /\ Returned("Download", "nil") =>
                LET last == Before(Len(log) + 1)
                    p == CHOOSE m \in Calls("ListObjectsV2") :
                             \A k \in Calls("ListObjectsV2") : k <= m
                IN  /\ last # 0
                    /\ log[p].ok
                    /\ PageDoneAt(p, last)
                    /\ log[p].page = Len(store)
        /\ (pc = "list" /\ Calls("ListObjectsV2") # {}) =>
                LET p == CHOOSE m \in Calls("ListObjectsV2") :
                             \A k \in Calls("ListObjectsV2") : k <= m
                IN  log[p].ok /\ log[p].page < Len(store)

\* C20's case: two extra directories were made, a truncated page was stepped and
\* the list request after it was issued.
C20_Witness ==
    /\ op.name = "Download"
    /\ Len(op.otherDirs) = 2
    /\ Cardinality(Calls("ListObjectsV2")) = 2
    /\ Calls("Entry") # {}
    /\ \A n \in Calls("ListObjectsV2") : log[n].ok

\* C21: ReadFile's error surface.  ReadFile returns nil if and only if its list
\* request succeeded with one entry or more and the GetObject and the read of
\* the body of the first entry succeeded; a failed list request, GetObject or
\* read is returned as that error with an empty body and key; and nil never
\* comes with an empty body and key, as it would by falling out of the loop.
C21_ReadFileErrorSurface ==
    op.name = "ReadFile" =>
        /\ pc = "idle"
        /\ ret = "nil" <=>
                /\ log[1].ok /\ Listed(1) # <<>>
                /\ \E n \in Calls("GetObject") : log[n].ok
                /\ \E n \in Calls("ReadAll") : log[n].ok
        /\ ~log[1].ok => ret = "ErrList" /\ Len(log) = 1
        /\ \A n \in Calls("GetObject") :
                ~log[n].ok => ret = "ErrGetObject" /\ n = Len(log)
        /\ \A n \in Calls("ReadAll") : ~log[n].ok => ret = "ErrRead" /\ n = Len(log)
        /\ ret # "nil" => op.body = "" /\ op.key = ""
        /\ ret = "nil" => op.key = Listed(1)[1] /\ op.key # ""

\* C21's case: ReadFile has returned the error of the read of the body.
C21_Witness ==
    /\ Returned("ReadFile", "ErrRead")
    /\ \E n \in Calls("GetObject") : log[n].ok
    /\ \E n \in Calls("ReadAll") : ~log[n].ok
    /\ op.body = "" /\ op.key = ""

\* C22: exclusive file creation.  Beside another writer of the same destination,
\* no step of a DownloadAllObjectsInBucket call creates a destination file over
\* one that is there at the moment of the creation.
C22_ExclusiveCreation ==
    op.name = "Download" =>
        \A n \in Calls("Create") : log[n].ok => ~log[n].existed

\* C23: termination of the download loop.  Against a store of finitely many pages
\* that answers a request without a token with its first page, a
\* DownloadAllObjectsInBucket call issues at most as many list requests as the
\* store has pages, and so returns.
C23_DownloadTerminates ==
    op.name = "Download" => Cardinality(Calls("ListObjectsV2")) <= Len(store)

\* The failed downloads of earlier calls into the destDir of the running call.
FailedBefore == {f \in prev.failed : f.destDir = op.destDir}

\* C24: a failed download and the later runs.  Once the Download for a key has
\* failed, the file created for it is still at its destination, as the failed
\* download left it, in every later DownloadAllObjectsInBucket call to the same
\* destDir, and such a call creates no file and issues no Download for the key
\* when it steps it.
C24_FailedDownloadStays ==
    op.name = "Download" =>
        \A f \in FailedBefore :
            /\ Resolve(DestFilePath(f.destDir, f.Key)) \in DOMAIN fsFiles
            /\ fsFiles[Resolve(DestFilePath(f.destDir, f.Key))] = EmptyContent
            /\ \A n \in Calls("Download") : log[n].Key # f.Key
            /\ \A n \in Calls("Entry") :
                    log[n].Key = f.Key =>
                        /\ log[n].there
                        /\ \A m \in StepOf(n) :
                                log[m].call \notin {"Create", "Download"}

\* C24's case: a later call to the same destDir has stepped the key whose
\* download had failed, and has returned nil.
C24_Witness ==
    /\ Returned("Download", "nil")
    /\ \E f \in FailedBefore : \E n \in Calls("Entry") : log[n].Key = f.Key

====
